---- MODULE Spec2Model ----
(***************************************************************************)
(* Page controllers of the admin back-office:                              *)
(*   - the purchase-order composition screen (po_populate.js and the       *)
(*     products_order.html template that wires its buttons),               *)
(*   - the REST wrapper _callAPI,                                          *)
(*   - the employee budget input of the campaign status page,              *)
(*   - initializeDjangoAdmin of the order admin inlines.                   *)
(* Each controller is a state machine of its own page; a specification     *)
(* runs one page and leaves the other pages' variables at rest.            *)
(***************************************************************************)
EXTENDS Integers, Sequences, FiniteSets, TLC

VARIABLES
    \* ---- purchase-order screen (po_populate.js globals and the DOM) ----
    page,              \* "loading" | "open" | "left" (window.location.href assigned)
    poId,              \* {{ product_instance.id }}: 0 renders as '' (new PO)
    suppliersLoaded,   \* suppliers !== undefined
    listeners,         \* the two change listeners of suppliersOrder are installed
    selectedSupplier,  \* supplier id, 0 = undefined
    productsDefined,   \* products !== undefined
    products,          \* sequence of catalogue products
    selectedProduct,   \* a catalogue product, NoProduct = undefined
    orderProducts,     \* sequence of line items
    buttonsDisabled,   \* disabled attribute of every button.saveButton
    inflight,          \* requests issued by savePO that have not settled
    importQty,         \* the sheet of the import that just merged: sku -> quantity
    lastRow,           \* the row whose +, - or trash button ran last, else 0
    alertMsg,          \* alert() of sendPO or savePO if it ran last, else "none"
    lastOp,            \* what ran last: "compose", "addProduct",
                       \* "updateQuantity", "deleteProduct", "imported",
                       \* "sendPO" (refused), the status savePO was called
                       \* with, or how its request ended
    \* ---- _callAPI promise chain ----
    callPc, callResp, callOutcome, callSettled,
    \* ---- budget input ----
    budgetValue,       \* input.value; Empty when the field is blank
    budgetDefault,     \* input.defaultValue
    budgetBefore,      \* the value the input showed before the edit under way
    budgetEditing,     \* an input event came since the last change event
    budgetPending,     \* update requests that have not settled
    budgetLeft,        \* text of the row's .employee_left_budget cell
    budgetFailed,      \* after a failed update: the value before that edit
    budgetOp,          \* the handler that ran last
    \* ---- initializeDjangoAdmin ----
    domLoaded,         \* DOMContentLoaded has fired
    djangoReady,       \* typeof django !== 'undefined' && django.jQuery
    timerPending,      \* timers set by setTimeout(initializeDjangoAdmin, 100)
    retries,           \* timers that have fired, counted up to MaxRetries
    installs,          \* times the callback given to django.jQuery has run
    rowProduct,        \* per inline row: value of select[name$="-product_id"]
    rowCells,          \* per inline row: text of td.field-sku_display
    \* ---- cost price of a MONEY line ----
    costVoucher,       \* voucher_value, in hundredths; Undef = undefined
    costRate,          \* supplier_discount_rate; Undef = undefined
    costPrice,         \* cost_price of the line; Undef = not computed or NaN
    costOp             \* the computation that ran last

poVars == <<page, poId, suppliersLoaded, listeners, selectedSupplier,
            productsDefined, products, selectedProduct, orderProducts,
            buttonsDisabled, inflight, importQty, lastRow, alertMsg, lastOp>>
callVars == <<callPc, callResp, callOutcome, callSettled>>
budgetVars == <<budgetValue, budgetDefault, budgetBefore, budgetEditing,
                budgetPending, budgetLeft, budgetFailed, budgetOp>>
adminVars == <<domLoaded, djangoReady, timerPending, retries, installs,
               rowProduct, rowCells>>
costVars == <<costVoucher, costRate, costPrice, costOp>>
vars == <<poVars, callVars, budgetVars, adminVars, costVars>>

\* ------------------------------------------------------------------ bounds
MaxQty == 2        \* largest quantity the +/- buttons are driven to
MaxRows == 1       \* rows of an imported sheet
MaxRetries == 3    \* retries of initializeDjangoAdmin that are counted
MaxBudget == 2     \* largest budget typed into the input
MaxPending == 2    \* budget updates in flight at once
MaxAdminRows == 2  \* inline rows of the order admin form
MaxLines == 2      \* lines of an order the line handlers start from
MaxInflight == 1   \* requests in flight when a script calls savePO
MaxVoucher == 10   \* largest whole voucher value of the cost computation

\* undefined, for fields that hold numbers
Undef == 0 - 1

\* ------------------------------------------------------------- _callAPI
HttpStatuses == {200, 201, 400, 404, 500}

\* response.ok
ResponseOk(status) == status >= 200 /\ status <= 299

\* What the server (or the network) answers. net = FALSE: fetch itself rejects.
\* json: "invalid" (response.json() rejects), "null" (the JSON value null),
\* "object" (a JSON object; data = "record" when it has a data member with an
\* id, "undefined" when it has none; message: it has a message member).
Bodies ==
    { [json |-> "invalid", data |-> "undefined", message |-> FALSE],
      [json |-> "null", data |-> "undefined", message |-> FALSE] }
    \cup [json : {"object"}, data : {"undefined", "record"}, message : BOOLEAN]
NoBody == [json |-> "none", data |-> "undefined", message |-> FALSE]
Responses ==
    [net : {TRUE}, status : HttpStatuses, body : Bodies]
    \cup {[net |-> FALSE, status |-> 0, body |-> NoBody]}

\* the answers taken for the requests of savePO
ServerResponses == { r \in Responses : r.status \in {0, 200, 400, 500} }

\* how a promise settles: fulfilled with value, or rejected with
\* {status, data} (hasData: the data member is present) or with a TypeError
Fulfilled(v) ==
    [state |-> "fulfilled", value |-> v, status |-> 0, hasData |-> FALSE,
     data |-> NoBody, error |-> "none"]
Rejected(st, has, d) ==
    [state |-> "rejected", value |-> "undefined", status |-> st,
     hasData |-> has, data |-> d, error |-> "none"]
Thrown(e) ==
    [state |-> "rejected", value |-> "undefined", status |-> 0,
     hasData |-> FALSE, data |-> NoBody, error |-> e]
Pending == [state |-> "pending", value |-> "undefined", status |-> 0,
            hasData |-> FALSE, data |-> NoBody, error |-> "none"]

\* fetch(...).catch(_err => Promise.reject({status: -1}))
FetchCatch(resp) ==
    IF resp.net THEN Pending ELSE Rejected(0 - 1, FALSE, NoBody)

\* response.json().catch(_err => Promise.reject({status: response.status}))
JsonCatch(resp) ==
    IF resp.body.json = "invalid" THEN Rejected(resp.status, FALSE, NoBody)
    ELSE Pending

\* .then(responseBody => response.ok ? resolve(responseBody.data) : reject(...))
\* responseBody.data on the JSON value null throws a TypeError
ThenBody(resp) ==
    IF ResponseOk(resp.status)
    THEN IF resp.body.json = "null" THEN Thrown("TypeError")
         ELSE Fulfilled(resp.body.data)
    ELSE Rejected(resp.status, TRUE, resp.body)

\* the settlement of the promise _callAPI returns
CallAPI(resp) ==
    IF FetchCatch(resp).state # "pending" THEN FetchCatch(resp)
    ELSE IF JsonCatch(resp).state # "pending" THEN JsonCatch(resp)
    ELSE ThenBody(resp)

\* ------------------------------------------------- suppliers and catalogue
\* getSuppliers(): supplier 1 has an email address, supplier 2 has none
SupplierIds == {1, 2}
SupplierEmail(s) == s = 1
\* names that appear in sheets and URLs: the suppliers' and one unknown (9);
\* 0 is an absent name (undefined cell, null URL parameter, '' argument)
SupplierNames == {0, 1, 2, 9}

\* suppliers.find(supplier => supplier.name === name): 0 = undefined
FindSupplier(name) == IF name \in SupplierIds THEN name ELSE 0

Product(i, s, k, v) == [id |-> i, sku |-> s, kind |-> k, voucher |-> v]
\* selectedProduct undefined
NoProduct == Product(0, 0, "ABSENT", Undef)
\* {...undefined}: an object without members (id, sku, product_kind and
\* voucher_value all read undefined)
BlankProduct == Product(0, 0, "NONE", Undef)

\* getProductsBySupplier(supplier): voucher values are in hundredths
Catalogue(s) ==
    IF s = 1 THEN << Product(1, 1, "MONEY", 5000) >>
    ELSE IF s = 2 THEN << Product(2, 2, "PHYSICAL", Undef) >>
    ELSE << >>

Range(f) == { f[i] : i \in DOMAIN f }
Skus(prods) == { prods[i].sku : i \in DOMAIN prods }

\* products.find(pred): the first match, NoProduct when there is none
FindById(prods, i) ==
    IF \E k \in DOMAIN prods : prods[k].id = i
    THEN prods[CHOOSE k \in DOMAIN prods :
                 /\ prods[k].id = i
                 /\ \A j \in DOMAIN prods : prods[j].id = i => k <= j]
    ELSE NoProduct
FindBySku(prods, s) ==
    IF \E k \in DOMAIN prods : prods[k].sku = s
    THEN prods[CHOOSE k \in DOMAIN prods :
                 /\ prods[k].sku = s
                 /\ \A j \in DOMAIN prods : prods[j].sku = s => k <= j]
    ELSE NoProduct

\* Number(v).toFixed(1): tenths, rounded; "NaN" (Undef) for undefined
ToFixed1(v) == IF v = Undef THEN Undef ELSE (v + 5) \div 10

\* ------------------------------------------------------------- line items
\* id 0: the line has no id member (a raw sheet row)
Line(i, s, v, q, k) ==
    [id |-> i, sku |-> s, voucher |-> v, quantity |-> q, kind |-> k]

\* addProduct's duplicate test
SameLine(l, sp) ==
    l.sku = sp.sku /\ ToFixed1(l.voucher) = ToFixed1(sp.voucher)

\* addProduct with a duplicate test on the sku alone
AddProductBySku(order, sp, q) ==
    IF sp # NoProduct /\ ~ \E i \in DOMAIN order : order[i].sku = sp.sku
    THEN Append(order, Line(sp.id, sp.sku, sp.voucher, q, sp.kind))
    ELSE order

\* addProduct: selectedProduct sp with selectedProductQuantity q; voucher
\* values are in hundredths, which roundValue leaves as they are
AddProductTo(order, sp, q) ==
    IF sp # NoProduct /\ ~ \E i \in DOMAIN order : SameLine(order[i], sp)
    THEN Append(order, Line(sp.id, sp.sku, sp.voucher, q, sp.kind))
    ELSE order

\* updateQuantity(idx, voucher_value, quantity): the first line with that id
\* and voucher value (to one decimal); a result of 0 or less is ignored
UpdateQuantityOf(order, idx, v, d) ==
    IF \E i \in DOMAIN order :
          order[i].id = idx /\ ToFixed1(order[i].voucher) = ToFixed1(v)
    THEN LET k == CHOOSE i \in DOMAIN order :
                    /\ order[i].id = idx
                    /\ ToFixed1(order[i].voucher) = ToFixed1(v)
                    /\ \A j \in DOMAIN order :
                          (order[j].id = idx
                           /\ ToFixed1(order[j].voucher) = ToFixed1(v)) => i <= j
         IN IF order[k].quantity + d > 0
            THEN [order EXCEPT ![k].quantity = order[k].quantity + d]
            ELSE order
    ELSE order

\* deleteProduct(id, voucher_value): filter on id + "_" + voucher_value
KeepLine(l, i, v) == ~ (l.id = i /\ l.voucher = v)
DeleteProductOf(order, i, v) == SelectSeq(order, LAMBDA l : KeepLine(l, i, v))

\* ------------------------------------------------------------ XLSX import
SheetSkus == {1, 2}
\* a sheet row: supplier name, sku, quantity
SheetRows == [supplier : SupplierNames \ {0}, sku : SheetSkus, quantity : {0, 2}]
Sheets == UNION { [1..n -> SheetRows] : n \in 1..MaxRows }

\* the quantity a sheet gives a sku: that of its last row with the sku,
\* Undef when no row has it
SheetQty(data) ==
    [s \in SheetSkus |->
        IF \E i \in DOMAIN data : data[i].sku = s
        THEN data[CHOOSE i \in DOMAIN data :
                    /\ data[i].sku = s
                    /\ \A j \in DOMAIN data : data[j].sku = s => j <= i].quantity
        ELSE Undef]
NoSheet == [s \in SheetSkus |-> Undef]

\* the supplier loop of importOrderProducts: the first row sets the name,
\* a later row with another (truthy) name is a duplicate
DuplicateSupplier(data) ==
    \E i \in 2..Len(data) :
        data[i].supplier # 0 /\ data[i].supplier # data[1].supplier

\* orderProducts.forEach(prod => map.set(prod.sku, prod)): a Map keeps the
\* position of the first set of a key and the value of the last
MapBySku(order) ==
    LET first == { i \in DOMAIN order :
                     \A j \in DOMAIN order : order[j].sku = order[i].sku => i <= j }
        last(s) == CHOOSE i \in DOMAIN order :
                     /\ order[i].sku = s
                     /\ \A j \in DOMAIN order : order[j].sku = s => j <= i
        RECURSIVE build(_)
        build(i) == IF i > Len(order) THEN << >>
                    ELSE IF i \in first
                         THEN << order[last(order[i].sku)] >> \o build(i + 1)
                         ELSE build(i + 1)
    IN build(1)

\* a sheet row stored as it is: no id, no voucher_value, no product_kind
RowLine(r) == Line(0, r.sku, Undef, r.quantity, "NONE")

\* products_data.forEach(newProd => ...)
RECURSIVE MergeRows(_, _)
MergeRows(acc, rows) ==
    IF rows = << >> THEN acc
    ELSE LET r == Head(rows)
         IN IF \E i \in DOMAIN acc : acc[i].sku = r.sku
            THEN LET k == CHOOSE i \in DOMAIN acc : acc[i].sku = r.sku
                 IN MergeRows([acc EXCEPT ![k].quantity = r.quantity], Tail(rows))
            ELSE MergeRows(Append(acc, RowLine(r)), Tail(rows))

\* the .then() of importOrderProducts
ImportMerge(order, prods, data) ==
    MergeRows(MapBySku(order), SelectSeq(data, LAMBDA r : r.sku \in Skus(prods)))

\* ------------------------------------------------------------- page load
\* one element of _products in the template: [po_product_id, po_quantity,
\* po_id, po_product_voucher_value]
PoProduct(i, q, v) == [id |-> i, quantity |-> q, voucher |-> v]
\* one element of initialPOData
InitProduct(p, s, q, var, v) ==
    [pk |-> p, sku |-> s, quantity |-> q, variation |-> var, voucher |-> v]

\* what the server renders into the page: supplier_name and _products of the
\* stored order, ?supplierName= of the URL and initialPOData
PageLoads ==
    { \* a new, empty purchase order
      [id |-> 0, supplier |-> 0, prods |-> << >>, url |-> 0, init |-> << >>],
      \* a new purchase order opened from the order summary of supplier 1:
      \* its voucher product, ordered with two voucher values
      [id |-> 0, supplier |-> 0, prods |-> << >>, url |-> 1,
       init |-> << InitProduct(11, 1, 1, 1, 5000),
                   InitProduct(12, 1, 0, 1, 10000) >>],
      \* a stored purchase order of supplier 1
      [id |-> 7, supplier |-> 1, url |-> 0, init |-> << >>,
       prods |-> << PoProduct(1, 2, 5000) >>],
      \* a stored purchase order of supplier 2 (no email address)
      [id |-> 7, supplier |-> 2, url |-> 0, init |-> << >>,
       prods |-> << PoProduct(2, 1, Undef) >>],
      \* a stored purchase order whose supplier's name getSuppliers() does
      \* not return
      [id |-> 7, supplier |-> 9, url |-> 0, init |-> << >>,
       prods |-> << PoProduct(1, 1, 5000) >>] }

\* the products.find of the forEach of suppliersOrder, spread into a new
\* object: the first product with the stored id (and, for a MONEY product,
\* the stored voucher value to one decimal), BlankProduct when there is none
StoredMatch(p, d) ==
    /\ p.id = d.id
    /\ (p.kind = "MONEY" => ToFixed1(p.voucher) = ToFixed1(d.voucher))
StoredFind(prods, d) ==
    IF \E k \in DOMAIN prods : StoredMatch(prods[k], d)
    THEN prods[CHOOSE k \in DOMAIN prods :
                 /\ StoredMatch(prods[k], d)
                 /\ \A j \in DOMAIN prods : StoredMatch(prods[j], d) => k <= j]
    ELSE BlankProduct

\* the forEach of suppliersOrder: find the product, then addProduct()
RECURSIVE AddStored(_, _, _)
AddStored(order, prods, stored) ==
    IF stored = << >> THEN order
    ELSE LET d == Head(stored)
         IN AddStored(AddProductTo(order, StoredFind(prods, d), d.quantity),
                      prods, Tail(stored))

\* selectedProduct is left at the last object the forEach made
LastStored(prods, stored) ==
    IF stored = << >> THEN NoProduct
    ELSE StoredFind(prods, stored[Len(stored)])

\* the first loop of loadOrderFromInitData over Object.keys(initProducts)
\* (ascending pk): one line per initialPOData entry, quantity
\* Math.max(1, quantity), sku the entry's variation, voucher_value
\* vouchers[pk] || 0 for a MONEY product
InitLine(prods, ip) ==
    LET sp == FindBySku(prods, ip.sku)
    IN Line(sp.id, ip.variation,
            IF sp.kind = "MONEY"
            THEN (IF ip.voucher = Undef THEN 0 ELSE ip.voucher)
            ELSE Undef,
            IF ip.quantity > 1 THEN ip.quantity ELSE 1,
            sp.kind)
InitLines(prods, init) == [i \in DOMAIN init |-> InitLine(prods, init[i])]

\* orderProducts.sort((a, b) => a.sku < b.sku ? -1 : 1): any arrangement
\* with ascending skus (the comparator never answers 0, so the order of
\* lines with equal skus is the engine's)
IsSortOf(out, in) ==
    /\ Len(out) = Len(in)
    /\ \E f \in [DOMAIN in -> DOMAIN in] :
          /\ \A i, j \in DOMAIN in : i # j => f[i] # f[j]
          /\ \A i \in DOMAIN in : out[i] = in[f[i]]
    /\ \A i, j \in DOMAIN out : i < j => out[i].sku <= out[j].sku
SortsBySku(in) ==
    { out \in [DOMAIN in -> Range(in)] : IsSortOf(out, in) }

\* suppliersOrder(...) followed by loadOrderFromInitData(), as one handler of
\* the window's load event; every fetch of this model's page load succeeds
\* or getSuppliers fails (the catch of suppliersOrder alerts, no listener is
\* installed and loadOrderFromInitData throws on suppliers.filter)
LoadPage ==
    /\ page = "loading"
    /\ \E pl \in PageLoads, suppliersOk \in BOOLEAN :
         /\ poId' = pl.id
         /\ suppliersLoaded' = suppliersOk
         /\ listeners' = suppliersOk
         /\ IF ~suppliersOk
            THEN /\ selectedSupplier' = 0
                 /\ productsDefined' = FALSE
                 /\ products' = << >>
                 /\ selectedProduct' = NoProduct
                 /\ orderProducts' = << >>
                 /\ alertMsg' = "none"
            ELSE LET s1 == FindSupplier(pl.supplier)
                     prods1 == Catalogue(s1)
                     order1 == AddStored(<< >>, prods1, pl.prods)
                     \* loadOrderFromInitData
                     runs == pl.init # << >>
                     s2 == IF FindSupplier(pl.url) # 0
                           THEN FindSupplier(pl.url) ELSE s1
                 IN /\ selectedSupplier' = IF runs THEN s2 ELSE s1
                    /\ productsDefined' = (pl.supplier # 0 \/ runs)
                    /\ products' = IF runs THEN Catalogue(s2) ELSE prods1
                    /\ selectedProduct' = LastStored(prods1, pl.prods)
                    /\ IF runs
                       THEN orderProducts' \in
                               SortsBySku(InitLines(Catalogue(s2), pl.init))
                       ELSE orderProducts' = order1
                    /\ alertMsg' = "none"
    /\ page' = "open"
    /\ buttonsDisabled' = FALSE
    /\ inflight' = {}
    /\ importQty' = NoSheet
    /\ lastRow' = 0
    /\ lastOp' = "compose"
    /\ UNCHANGED <<callVars, budgetVars, adminVars, costVars>>

\* --------------------------------------------------- composing the order
\* populateProducts(supplier) for a supplier that exists: the catalogue when
\* the fetch succeeds; when it fails the catch alerts and products stay
Populated(s, fetchOk) == IF fetchOk THEN Catalogue(s) ELSE products

\* change listener of #suppliers (option "Supplier" has no supplier: 0)
SupplierChange ==
    /\ page = "open" /\ listeners
    /\ \E s \in SupplierIds \cup {0}, fetchOk \in BOOLEAN :
         /\ selectedSupplier' = s
         /\ IF s = 0
            THEN /\ products' = << >>
                 /\ productsDefined' = TRUE
                 /\ selectedProduct' = NoProduct
                 /\ orderProducts' = << >>
                 /\ alertMsg' = "none"
            ELSE /\ products' = Populated(s, fetchOk)
                 /\ productsDefined' = (productsDefined \/ fetchOk)
                 /\ alertMsg' = "none"
                 /\ UNCHANGED <<selectedProduct, orderProducts>>
    /\ lastOp' = "compose"
    /\ UNCHANGED <<page, poId, suppliersLoaded, listeners, buttonsDisabled,
                   inflight>>
    /\ importQty' = NoSheet
    /\ lastRow' = 0
    /\ UNCHANGED <<callVars, budgetVars, adminVars, costVars>>

\* change listener of #products: the options are the loaded products and
\* "Sku/Name" (value 0, which no product has)
ProductChange ==
    /\ page = "open" /\ listeners /\ productsDefined
    /\ \E i \in {0} \cup { products[k].id : k \in DOMAIN products } :
         selectedProduct' = FindById(products, i)
    /\ alertMsg' = "none"
    /\ lastOp' = "compose"
    /\ UNCHANGED <<page, poId, suppliersLoaded, listeners, selectedSupplier,
                   productsDefined, products, orderProducts, buttonsDisabled,
                   inflight>>
    /\ importQty' = NoSheet
    /\ lastRow' = 0
    /\ UNCHANGED <<callVars, budgetVars, adminVars, costVars>>

\* the "Add Product" button; selectedProductQuantity is 1 after the load
AddProduct ==
    /\ page = "open"
    /\ orderProducts' = AddProductTo(orderProducts, selectedProduct, 1)
    /\ alertMsg' = "none"
    /\ lastOp' = "addProduct"
    /\ UNCHANGED <<page, poId, suppliersLoaded, listeners, selectedSupplier,
                   productsDefined, products, selectedProduct, buttonsDisabled,
                   inflight>>
    /\ importQty' = NoSheet
    /\ lastRow' = 0
    /\ UNCHANGED <<callVars, budgetVars, adminVars, costVars>>

\* the - and + buttons of row r call
\* updateQuantity(orderProduct.id, '<orderProduct.voucher_value>', -1 | 1)
UpdateQuantity ==
    /\ page = "open"
    /\ \E r \in DOMAIN orderProducts, d \in {0 - 1, 1} :
         /\ orderProducts' = UpdateQuantityOf(orderProducts, orderProducts[r].id,
                                              orderProducts[r].voucher, d)
         /\ \A i \in DOMAIN orderProducts' : orderProducts'[i].quantity <= MaxQty
         /\ lastRow' = r
    /\ alertMsg' = "none"
    /\ lastOp' = "updateQuantity"
    /\ UNCHANGED <<page, poId, suppliersLoaded, listeners, selectedSupplier,
                   productsDefined, products, selectedProduct, buttonsDisabled,
                   inflight>>
    /\ importQty' = NoSheet
    /\ UNCHANGED <<callVars, budgetVars, adminVars, costVars>>

\* the trash button of row r calls
\* deleteProduct('<orderProduct.id>', '<orderProduct.voucher_value>')
DeleteProduct ==
    /\ page = "open"
    /\ \E r \in DOMAIN orderProducts :
         /\ orderProducts' = DeleteProductOf(orderProducts, orderProducts[r].id,
                                             orderProducts[r].voucher)
         /\ lastRow' = r
    /\ alertMsg' = "none"
    /\ lastOp' = "deleteProduct"
    /\ UNCHANGED <<page, poId, suppliersLoaded, listeners, selectedSupplier,
                   productsDefined, products, selectedProduct, buttonsDisabled,
                   inflight>>
    /\ importQty' = NoSheet
    /\ UNCHANGED <<callVars, budgetVars, adminVars, costVars>>

\* importOrderProducts with a sheet of at least one row, through reader.onload
\* and the .then() of populateProducts
\*   "dup"      more than one supplier: return
\*   "unknown"  suppliers.find finds none: return
\*   "error"    suppliers is undefined: the catch runs
\*   "throws"   products is undefined in the .then(): nothing is stored
\*   "merged"   the .then() ran to its end
ImportResult(data, fetchOk) ==
    IF ~suppliersLoaded THEN "error"
    ELSE IF DuplicateSupplier(data) THEN "dup"
    ELSE IF FindSupplier(data[1].supplier) = 0 THEN "unknown"
    ELSE IF ~fetchOk /\ ~productsDefined THEN "throws"
    ELSE "merged"

ImportOrderProducts ==
    /\ page = "open"
    /\ \E data \in Sheets, fetchOk \in BOOLEAN :
         LET res == ImportResult(data, fetchOk)
             s == FindSupplier(data[1].supplier)
         IN /\ alertMsg' = "none"
            /\ lastOp' = IF res = "merged" /\ fetchOk THEN "imported" ELSE "compose"
            /\ IF res \in {"merged", "throws"}
               THEN /\ selectedSupplier' = s
                    /\ products' = Populated(s, fetchOk)
                    /\ productsDefined' = (productsDefined \/ fetchOk)
               ELSE UNCHANGED <<selectedSupplier, products, productsDefined>>
            /\ IF res = "merged"
               THEN orderProducts' =
                        ImportMerge(orderProducts, Populated(s, fetchOk), data)
               ELSE UNCHANGED orderProducts
            /\ importQty' = IF res = "merged" /\ fetchOk
                            THEN SheetQty(data) ELSE NoSheet
    /\ lastRow' = 0
    /\ UNCHANGED <<page, poId, suppliersLoaded, listeners, selectedProduct,
                   buttonsDisabled, inflight>>
    /\ UNCHANGED <<callVars, budgetVars, adminVars, costVars>>

\* ------------------------------------------------------------ saving
\* a request of savePO: sendApprovedPO(id) is the PATCH of
\* logistics/order-products-status/<id>; sendProductsOrder(data, id) is the
\* PATCH of logistics/order-products/<id> when id !== "" and the POST of
\* logistics/order-products otherwise
\* ids: 0 is '' (the template renders no id), NullId is null (savePO's
\* default for an omitted id), anything else is the id of a stored order
NullId == 0 - 1
\* "&& id" of savePO
Truthy(i) == i # 0 /\ i # NullId

StatusRequest(i, keep) ==
    [endpoint |-> "order-products-status", method |-> "PATCH", id |-> i,
     status |-> "APPROVED", supplier |-> 0, keepEdit |-> keep]
OrderRequest(st, i, keep) ==
    [endpoint |-> "order-products",
     method |-> IF i # 0 THEN "PATCH" ELSE "POST", id |-> i,
     status |-> st, supplier |-> selectedSupplier, keepEdit |-> keep]

\* savePO without the test of selectedSupplier
SavePONoSupplier(st, i, keep) ==
    IF st = "APPROVED" /\ Truthy(i)
    THEN /\ buttonsDisabled' = TRUE
         /\ inflight' = inflight \cup {StatusRequest(i, keep)}
         /\ alertMsg' = "none"
    ELSE IF orderProducts # << >>
    THEN /\ buttonsDisabled' = TRUE
         /\ inflight' = inflight \cup {OrderRequest(st, i, keep)}
         /\ alertMsg' = "none"
    ELSE /\ UNCHANGED <<buttonsDisabled, inflight>>
         /\ alertMsg' = "Please add at least one product to the order."

\* savePO that saves the lines before it approves
SavePOApproveSaves(st, i, keep) ==
    IF st = "APPROVED" /\ Truthy(i)
    THEN /\ buttonsDisabled' = TRUE
         /\ inflight' = inflight \cup {OrderRequest(st, i, keep),
                                        StatusRequest(i, keep)}
         /\ alertMsg' = "none"
    ELSE IF orderProducts # << >> /\ selectedSupplier # 0
    THEN /\ buttonsDisabled' = TRUE
         /\ inflight' = inflight \cup {OrderRequest(st, i, keep)}
         /\ alertMsg' = "none"
    ELSE /\ UNCHANGED <<buttonsDisabled, inflight>>
         /\ alertMsg' = "Please add at least one product to the order."

\* savePO that leaves the save buttons enabled
SavePOKeepsEnabled(st, i, keep) ==
    IF st = "APPROVED" /\ Truthy(i)
    THEN /\ UNCHANGED buttonsDisabled
         /\ inflight' = inflight \cup {StatusRequest(i, keep)}
         /\ alertMsg' = "none"
    ELSE IF orderProducts # << >> /\ selectedSupplier # 0
    THEN /\ UNCHANGED buttonsDisabled
         /\ inflight' = inflight \cup {OrderRequest(st, i, keep)}
         /\ alertMsg' = "none"
    ELSE /\ UNCHANGED <<buttonsDisabled, inflight>>
         /\ alertMsg' = "Please add at least one product to the order."

\* savePO(status, id, keepEdit) up to its await
SavePO(st, i, keep) ==
    IF st = "APPROVED" /\ Truthy(i)
    THEN /\ buttonsDisabled' = TRUE
         /\ inflight' = inflight \cup {StatusRequest(i, keep)}
         /\ alertMsg' = "none"
    ELSE IF orderProducts # << >> /\ selectedSupplier # 0
    THEN /\ buttonsDisabled' = TRUE
         /\ inflight' = inflight \cup {OrderRequest(st, i, keep)}
         /\ alertMsg' = "none"
    ELSE /\ UNCHANGED <<buttonsDisabled, inflight>>
         /\ alertMsg' =
              IF orderProducts = << >> /\ st # "APPROVED"
              THEN "Please add at least one product to the order."
              ELSE IF selectedSupplier = 0 /\ st # "APPROVED"
              THEN "Please select a supplier for the order."
              ELSE "none"

\* the buttons of products_order.html that call savePO: Approve PO and
\* Cancel PO when the page shows a stored order, the two Save buttons
\* otherwise. A disabled button does not fire its click handler.
SaveButtons ==
    IF poId # 0
    THEN { [status |-> "APPROVED", keepEdit |-> FALSE],
           [status |-> "CANCELLED", keepEdit |-> FALSE] }
    ELSE { [status |-> "PENDING", keepEdit |-> FALSE],
           [status |-> "PENDING", keepEdit |-> TRUE] }

SaveClick ==
    /\ page = "open" /\ ~buttonsDisabled
    /\ \E b \in SaveButtons :
         /\ SavePO(b.status, poId, b.keepEdit)
         /\ lastOp' = b.status
    /\ importQty' = NoSheet
    /\ lastRow' = 0
    /\ UNCHANGED <<page, poId, suppliersLoaded, listeners, selectedSupplier,
                   productsDefined, products, selectedProduct, orderProducts>>
    /\ UNCHANGED <<callVars, budgetVars, adminVars, costVars>>

\* savePO called by a script of the page rather than by a button: any
\* status, the page's id or none (id = null), keepEdit given or not
\* (keepEdit = true)
SavePOCall ==
    /\ page = "open"
    /\ Cardinality(inflight) < MaxInflight
    /\ \E st \in {"PENDING", "CANCELLED", "APPROVED", "SENT_TO_SUPPLIER"},
          i \in {poId, NullId}, keep \in BOOLEAN :
         /\ SavePO(st, i, keep)
         /\ lastOp' = st
    /\ importQty' = NoSheet
    /\ lastRow' = 0
    /\ UNCHANGED <<page, poId, suppliersLoaded, listeners, selectedSupplier,
                   productsDefined, products, selectedProduct, orderProducts>>
    /\ UNCHANGED <<callVars, budgetVars, adminVars, costVars>>

\* sendPO without the test of the email address
SendPONoEmailCheck ==
    /\ page = "open" /\ ~buttonsDisabled
    /\ SavePO("SENT_TO_SUPPLIER", poId, TRUE)
    /\ lastOp' = "SENT_TO_SUPPLIER"
    /\ importQty' = NoSheet
    /\ lastRow' = 0
    /\ UNCHANGED <<page, poId, suppliersLoaded, listeners, selectedSupplier,
                   productsDefined, products, selectedProduct, orderProducts>>
    /\ UNCHANGED <<callVars, budgetVars, adminVars, costVars>>

\* the Send PO button: sendPO(id)
SendPO ==
    /\ page = "open" /\ ~buttonsDisabled
    /\ IF selectedSupplier = 0 \/ ~SupplierEmail(selectedSupplier)
       THEN /\ alertMsg' = "PO cannot be sent since the supplier does not have an email address set"
            /\ UNCHANGED <<buttonsDisabled, inflight>>
       ELSE SavePO("SENT_TO_SUPPLIER", poId, TRUE)
    /\ lastOp' = IF selectedSupplier = 0 \/ ~SupplierEmail(selectedSupplier)
                 THEN "sendPO" ELSE "SENT_TO_SUPPLIER"
    /\ importQty' = NoSheet
    /\ lastRow' = 0
    /\ UNCHANGED <<page, poId, suppliersLoaded, listeners, selectedSupplier,
                   productsDefined, products, selectedProduct, orderProducts>>
    /\ UNCHANGED <<callVars, budgetVars, adminVars, costVars>>

\* what savePO does once the awaited request r has settled as o
\*   "navigate"  window.location.href is assigned
\*   "failed"    the catch ran: alert, buttons re-enabled
SaveOutcome(r, o) ==
    IF o.state = "rejected" THEN "failed"
    ELSE IF r.endpoint = "order-products-status" THEN "navigate"
    ELSE IF r.status = "SENT_TO_SUPPLIER" THEN "navigate"
    ELSE IF ~r.keepEdit THEN "navigate"
    \* response.id of an undefined response throws inside the try
    ELSE IF o.value = "undefined" THEN "failed"
    ELSE "navigate"

\* ex.data?.message
HasMessage(o) == o.state = "rejected" /\ o.hasData /\ o.data.message

\* the catch blocks without the server's message
SaveAlertGeneric(r, o) ==
    IF r.endpoint = "order-products-status"
    THEN "Error approving the PO. Please try again or contact support."
    ELSE "Something went wrong!"

SaveAlert(r, o) ==
    IF r.endpoint = "order-products-status"
    THEN IF HasMessage(o) THEN "Error approving PO: <message>"
         ELSE "Error approving the PO. Please try again or contact support."
    ELSE IF o.state = "rejected" /\ o.status = 400 /\ HasMessage(o)
         THEN "Error: <message>"
         ELSE "Something went wrong!"

\* a catch block that does not re-enable the buttons
ButtonsLeftDisabled == buttonsDisabled

\* elem.disabled = false for every button.saveButton, in both catch blocks
ButtonsAfterFailure == FALSE

\* how the awaited request ended, for a savePO that did not navigate
SettleOp(o) ==
    IF o.state = "fulfilled" THEN "threw"
    ELSE IF ~HasMessage(o) THEN "rejected"
    ELSE IF o.status = 400 THEN "rejectedMessage400"
    ELSE "rejectedMessage"

\* the request r settles with the response resp and savePO resumes
Settle ==
    /\ page = "open"
    /\ \E r \in inflight, resp \in ServerResponses :
         LET o == CallAPI(resp)
             out == SaveOutcome(r, o)
         IN /\ inflight' = inflight \ {r}
            /\ IF out = "navigate"
               THEN /\ page' = "left"
                    /\ alertMsg' = "none"
                    /\ orderProducts' =
                         IF r.endpoint = "order-products"
                            /\ r.status = "SENT_TO_SUPPLIER"
                         THEN << >> ELSE orderProducts
                    /\ UNCHANGED buttonsDisabled
                    /\ lastOp' = "navigated"
               ELSE /\ alertMsg' = SaveAlert(r, o)
                    /\ buttonsDisabled' = ButtonsAfterFailure
                    /\ lastOp' = SettleOp(o)
                    /\ UNCHANGED <<page, orderProducts>>
    /\ importQty' = NoSheet
    /\ lastRow' = 0
    /\ UNCHANGED <<poId, suppliersLoaded, listeners, selectedSupplier,
                   productsDefined, products, selectedProduct>>
    /\ UNCHANGED <<callVars, budgetVars, adminVars, costVars>>

\* ------------------------------------------------ the _callAPI promise chain
\* one call of _callAPI, link by link; callSettled counts the settlements of
\* the promise it returned
CallStart ==
    /\ callPc = "idle"
    /\ \E resp \in Responses : callResp' = resp
    /\ callPc' = "fetch"
    /\ callOutcome' = Pending
    /\ callSettled' = 0
    /\ UNCHANGED <<poVars, budgetVars, adminVars, costVars>>

\* fetch settles; its .catch turns a failure into {status: -1}, which skips
\* the .then that follows
CallFetch ==
    /\ callPc = "fetch"
    /\ IF FetchCatch(callResp).state = "pending"
       THEN /\ callPc' = "json"
            /\ UNCHANGED <<callOutcome, callSettled>>
       ELSE /\ callPc' = "done"
            /\ callOutcome' = FetchCatch(callResp)
            /\ callSettled' = callSettled + 1
    /\ UNCHANGED callResp
    /\ UNCHANGED <<poVars, budgetVars, adminVars, costVars>>

\* response.json() settles
CallJson ==
    /\ callPc = "json"
    /\ IF JsonCatch(callResp).state = "pending"
       THEN /\ callPc' = "then"
            /\ UNCHANGED <<callOutcome, callSettled>>
       ELSE /\ callPc' = "done"
            /\ callOutcome' = JsonCatch(callResp)
            /\ callSettled' = callSettled + 1
    /\ UNCHANGED callResp
    /\ UNCHANGED <<poVars, budgetVars, adminVars, costVars>>

\* the innermost .then runs
CallThen ==
    /\ callPc = "then"
    /\ callPc' = "done"
    /\ callOutcome' = ThenBody(callResp)
    /\ callSettled' = callSettled + 1
    /\ UNCHANGED callResp
    /\ UNCHANGED <<poVars, budgetVars, adminVars, costVars>>

\* ----------------------------------------------------- the budget input
Empty == 0 - 2
\* what a keystroke can leave in a type=number field
TypedValues == {Empty, 0 - 1} \cup (0..MaxBudget)
\* this.value.length && +this.value >= 0
ValidBudget(v) == v # Empty /\ v >= 0

\* oninput
BudgetInput ==
    /\ \E v \in TypedValues :
         IF ValidBudget(v)
         THEN /\ budgetValue' = v
              /\ budgetDefault' = v
         ELSE /\ budgetValue' = budgetDefault
              /\ UNCHANGED budgetDefault
    /\ budgetBefore' = IF budgetEditing THEN budgetBefore ELSE budgetValue
    /\ budgetEditing' = TRUE
    /\ budgetOp' = "input"
    /\ UNCHANGED <<budgetPending, budgetLeft, budgetFailed>>
    /\ UNCHANGED <<poVars, callVars, adminVars, costVars>>

\* onchange, fired when the edit is committed: updateTotalBudget(this) up to
\* its await of fetch
BudgetChange ==
    /\ budgetEditing
    /\ Cardinality(budgetPending) < MaxPending
    /\ budgetEditing' = FALSE
    /\ budgetPending' =
         IF ValidBudget(budgetValue)
         THEN budgetPending \cup
                {[total_budget |-> budgetValue, before |-> budgetBefore]}
         ELSE budgetPending
    /\ budgetOp' = "change"
    /\ UNCHANGED <<budgetValue, budgetDefault, budgetBefore, budgetLeft,
                   budgetFailed>>
    /\ UNCHANGED <<poVars, callVars, adminVars, costVars>>

\* the request settles: ok, and the left budget is shown; or the fetch fails
\* or answers not ok, and the catch alerts and assigns input.defaultValue
BudgetSettle ==
    /\ \E r \in budgetPending, ok \in BOOLEAN, left \in 0..MaxBudget :
         /\ budgetPending' = budgetPending \ {r}
         /\ IF ok
            THEN /\ budgetLeft' = left
                 /\ budgetOp' = "updated"
                 /\ UNCHANGED <<budgetValue, budgetFailed>>
            ELSE /\ budgetValue' = budgetDefault
                 /\ budgetFailed' = r.before
                 /\ budgetOp' = "failed"
                 /\ UNCHANGED budgetLeft
    /\ UNCHANGED <<budgetDefault, budgetBefore, budgetEditing>>
    /\ UNCHANGED <<poVars, callVars, adminVars, costVars>>

\* ------------------------------------------------ initializeDjangoAdmin
\* the products a row's select offers (0: the empty option) and the text
\* updateProductInfo writes for one: productData[id].sku, '' (0) without one
AdminProducts == {0, 1, 2}
ProductInfo(i) == i
\* a cell no handler has written yet shows what the server rendered
Stale == 0 - 1

\* updateProductInfo(row) for every row: the initial .each of the callback
AllRowsUpdated == [r \in DOMAIN rowProduct |-> ProductInfo(rowProduct[r])]

\* initializeDjangoAdmin that sets its timer whether or not it installed
InitializeAlwaysRetries(timers) ==
    /\ timerPending' = timers + 1
    /\ IF djangoReady
       THEN /\ installs' = installs + 1
            /\ rowCells' = [r \in DOMAIN rowProduct |-> ProductInfo(rowProduct[r])]
       ELSE UNCHANGED <<installs, rowCells>>

\* initializeDjangoAdmin(), with timers the timers still set when it runs:
\* install through django.jQuery(callback) when it is there (the document is
\* loaded, so the callback runs), or set a timer
InitializeDjangoAdmin(timers) ==
    IF djangoReady
    THEN /\ installs' = installs + 1
         /\ rowCells' = AllRowsUpdated
         /\ timerPending' = timers
    ELSE /\ timerPending' = timers + 1
         /\ UNCHANGED <<installs, rowCells>>

\* the DOMContentLoaded listener
DomContentLoaded ==
    /\ ~domLoaded
    /\ domLoaded' = TRUE
    /\ InitializeDjangoAdmin(timerPending)
    /\ UNCHANGED <<djangoReady, retries, rowProduct>>
    /\ UNCHANGED <<poVars, callVars, budgetVars, costVars>>

\* a timer of setTimeout(initializeDjangoAdmin, 100) fires
TimerFires ==
    /\ timerPending > 0
    /\ InitializeDjangoAdmin(timerPending - 1)
    /\ retries' = IF retries < MaxRetries THEN retries + 1 ELSE retries
    /\ UNCHANGED <<domLoaded, djangoReady, rowProduct>>
    /\ UNCHANGED <<poVars, callVars, budgetVars, costVars>>

\* the admin's own scripts define django.jQuery
DjangoLoads ==
    /\ ~djangoReady
    /\ djangoReady' = TRUE
    /\ UNCHANGED <<domLoaded, timerPending, retries, installs, rowProduct,
                   rowCells>>
    /\ UNCHANGED <<poVars, callVars, budgetVars, costVars>>

\* the user picks a product in row r; the delegated change handler runs
\* once per installation
SelectChange ==
    /\ domLoaded
    /\ \E r \in DOMAIN rowProduct, i \in AdminProducts :
         /\ rowProduct' = [rowProduct EXCEPT ![r] = i]
         /\ rowCells' = IF installs > 0
                        THEN [rowCells EXCEPT ![r] = ProductInfo(i)]
                        ELSE rowCells
    /\ UNCHANGED <<domLoaded, djangoReady, timerPending, retries, installs>>
    /\ UNCHANGED <<poVars, callVars, budgetVars, costVars>>

\* "Add another" appends an inline row and triggers formset:added
FormsetAdded ==
    /\ domLoaded
    /\ Len(rowProduct) < MaxAdminRows
    /\ rowProduct' = Append(rowProduct, 0)
    /\ rowCells' = Append(rowCells,
                          IF installs > 0 THEN ProductInfo(0) ELSE Stale)
    /\ UNCHANGED <<domLoaded, djangoReady, timerPending, retries, installs>>
    /\ UNCHANGED <<poVars, callVars, budgetVars, costVars>>

\* ------------------------------------------------ cost price of a MONEY line
\* JavaScript numbers are IEEE-754 doubles. A natural number is written in
\* limbs of LimbBits binary digits, least significant first, without high
\* zero limbs (0 is << >>); a double is m * 2^e with m of at most 53 binary
\* digits.
LimbBits == 12
Base == 2 ^ LimbBits
Limb(a, i) == IF i \in 1..Len(a) THEN a[i] ELSE 0
RECURSIVE Trim(_)
Trim(a) ==
    IF a # << >> /\ a[Len(a)] = 0 THEN Trim(SubSeq(a, 1, Len(a) - 1)) ELSE a
RECURSIVE NatOf(_)
NatOf(n) == IF n = 0 THEN << >> ELSE <<n % Base>> \o NatOf(n \div Base)
RECURSIVE IntOf(_)
IntOf(a) == IF a = << >> THEN 0 ELSE a[1] + Base * IntOf(Tail(a))

\* a + b
RECURSIVE AddCarry(_, _, _)
AddCarry(a, b, i) ==
    IF i = 0 THEN 0
    ELSE (Limb(a, i) + Limb(b, i) + AddCarry(a, b, i - 1)) \div Base
AddNat(a, b) ==
    LET n == (IF Len(a) > Len(b) THEN Len(a) ELSE Len(b)) + 1
    IN Trim([i \in 1..n |->
               (Limb(a, i) + Limb(b, i) + AddCarry(a, b, i - 1)) % Base])

\* a - b for a >= b
RECURSIVE SubBorrow(_, _, _)
SubBorrow(a, b, i) ==
    IF i = 0 THEN 0
    ELSE IF Limb(a, i) - Limb(b, i) - SubBorrow(a, b, i - 1) < 0 THEN 1 ELSE 0
SubNat(a, b) ==
    Trim([i \in 1..Len(a) |->
            (Limb(a, i) - Limb(b, i) - SubBorrow(a, b, i - 1) + Base) % Base])

\* a * d for one limb d, and a * b
RECURSIVE MulCarry(_, _, _)
MulCarry(a, d, i) ==
    IF i = 0 THEN 0 ELSE (Limb(a, i) * d + MulCarry(a, d, i - 1)) \div Base
MulLimb(a, d) ==
    Trim([i \in 1..(Len(a) + 1) |->
            (Limb(a, i) * d + MulCarry(a, d, i - 1)) % Base])
ShiftLimbs(a, k) == IF a = << >> THEN << >> ELSE [i \in 1..k |-> 0] \o a
RECURSIVE MulFrom(_, _, _)
MulFrom(a, b, i) ==
    IF i > Len(a) THEN << >>
    ELSE AddNat(ShiftLimbs(MulLimb(b, a[i]), i - 1), MulFrom(a, b, i + 1))
MulNat(a, b) == MulFrom(a, b, 1)

\* floor(a / d) and a mod d for a small d
RECURSIVE DivRem(_, _, _)
DivRem(a, d, i) ==
    IF i > Len(a) THEN 0 ELSE (DivRem(a, d, i + 1) * Base + a[i]) % d
DivSmall(a, d) ==
    Trim([i \in 1..Len(a) |-> (DivRem(a, d, i + 1) * Base + a[i]) \div d])

\* binary digits: how many, the k-th (0 is the lowest), shifts
RECURSIVE IntBits(_)
IntBits(n) == IF n = 0 THEN 0 ELSE 1 + IntBits(n \div 2)
BitLen(a) ==
    IF a = << >> THEN 0 ELSE LimbBits * (Len(a) - 1) + IntBits(a[Len(a)])
Bit(a, k) == (Limb(a, k \div LimbBits + 1) \div (2 ^ (k % LimbBits))) % 2
ShiftLeft(a, s) == ShiftLimbs(MulLimb(a, 2 ^ (s % LimbBits)), s \div LimbBits)
ShiftRight(a, s) ==
    LET q == s \div LimbBits
        r == s % LimbBits
    IN Trim([i \in 1..(Len(a) - q) |->
               Limb(a, i + q) \div (2 ^ r)
               + (Limb(a, i + q + 1) % (2 ^ r)) * (2 ^ (LimbBits - r))])

Dbl(m, e) == [m |-> m, e |-> e]
DblZero == Dbl(<< >>, 0)

\* the double nearest to a value in [m * 2^e, (m + 1) * 2^e), ties to even;
\* more says that the value is above m * 2^e
Round53(m, e, more) ==
    IF BitLen(m) <= 53 THEN Dbl(m, e)
    ELSE LET s == BitLen(m) - 53
             top == ShiftRight(m, s)
             sticky == more \/ \E k \in 0..(s - 2) : Bit(m, k) = 1
             up == Bit(m, s - 1) = 1 /\ (sticky \/ Bit(top, 0) = 1)
         IN Dbl(IF up THEN AddNat(top, <<1>>) ELSE top, e + s)

\* num / den of two small naturals, from the quotient carried to DivBits
\* binary places. It is also the double a decimal number of two places
\* (num hundredths) is read as.
DivBits == 72
DblDiv(num, den) ==
    IF num = 0 THEN DblZero
    ELSE LET scaled == ShiftLeft(NatOf(num), DivBits)
         IN Round53(DivSmall(scaled, den), 0 - DivBits,
                    DivRem(scaled, den, 1) # 0)

\* 1 - q for 0 <= q <= 1
DblOneMinus(q) ==
    IF q.m = << >> THEN Dbl(<<1>>, 0)
    ELSE IF q.m = ShiftLeft(<<1>>, 0 - q.e) THEN DblZero
    ELSE Round53(SubNat(ShiftLeft(<<1>>, 0 - q.e), q.m), q.e, FALSE)

DblMul(a, b) ==
    IF a.m = << >> \/ b.m = << >> THEN DblZero
    ELSE Round53(MulNat(a.m, b.m), a.e + b.e, FALSE)

\* Math.floor of a double >= 0
DblFloor(d) ==
    IF d.e >= 0 THEN IntOf(ShiftLeft(d.m, d.e))
    ELSE IntOf(ShiftRight(d.m, 0 - d.e))

\* Math.floor(voucher_value * (1 - (supplier_discount_rate / 100))), for a
\* voucher value of v hundredths; NaN (Undef) when an operand is undefined
CostPrice(v, rate) ==
    IF v = Undef \/ rate = Undef THEN Undef
    ELSE DblFloor(DblMul(DblDiv(v, 100), DblOneMinus(DblDiv(rate, 100))))

\* x || 0
OrZero(x) == IF x = Undef THEN 0 ELSE x

\* voucher values (hundredths) and discount rates of a MONEY product
CostVouchers ==
    {Undef} \cup { 100 * v : v \in 0..MaxVoucher } \cup {5000, 5004, 10000}
Rates == {Undef, 0, 7, 50, 80, 90, 100}

\* the MONEY branch of addProduct
AddProductCost ==
    /\ costPrice' = CostPrice(costVoucher, costRate)
    /\ costOp' = "addProduct"
    /\ UNCHANGED <<costVoucher, costRate>>
    /\ UNCHANGED <<poVars, callVars, budgetVars, adminVars>>

\* the MONEY branch of loadOrderFromInitData
LoadCost ==
    /\ costPrice' = CostPrice(OrZero(costVoucher), OrZero(costRate))
    /\ costOp' = "load"
    /\ UNCHANGED <<costVoucher, costRate>>
    /\ UNCHANGED <<poVars, callVars, budgetVars, adminVars>>

\* ------------------------------------------------------- specifications
PoRest ==
    /\ page = "loading" /\ poId = 0
    /\ suppliersLoaded = FALSE /\ listeners = FALSE
    /\ selectedSupplier = 0
    /\ productsDefined = FALSE /\ products = << >>
    /\ selectedProduct = NoProduct
    /\ orderProducts = << >>
    /\ buttonsDisabled = FALSE
    /\ inflight = {}
    /\ importQty = NoSheet
    /\ lastRow = 0
    /\ alertMsg = "none" /\ lastOp = "none"

CallRest ==
    /\ callPc = "idle"
    /\ callResp = [net |-> FALSE, status |-> 0, body |-> NoBody]
    /\ callOutcome = Pending
    /\ callSettled = 0

\* the page as rendered: the input shows the stored budget
BudgetRest(b) ==
    /\ budgetValue = b /\ budgetDefault = b /\ budgetBefore = b
    /\ budgetEditing = FALSE
    /\ budgetPending = {}
    /\ budgetLeft = 0
    /\ budgetFailed = Undef
    /\ budgetOp = "none"

\* the order admin form as rendered, with one stored inline row
AdminRest ==
    /\ domLoaded = FALSE /\ djangoReady = FALSE
    /\ timerPending = 0 /\ retries = 0 /\ installs = 0
    /\ rowProduct = << 1 >>
    /\ rowCells = << Stale >>

\* no cost price computed
CostRest ==
    /\ costVoucher = Undef /\ costRate = Undef
    /\ costPrice = Undef /\ costOp = "none"

Init == PoRest /\ CallRest /\ BudgetRest(0) /\ AdminRest /\ CostRest

\* the purchase-order screen while the order is composed
Next ==
    \/ LoadPage
    \/ SupplierChange
    \/ ProductChange
    \/ AddProduct
    \/ UpdateQuantity
    \/ DeleteProduct
    \/ ImportOrderProducts

Spec == Init /\ [][Next]_vars

\* the purchase-order screen while the order is saved: savePO reads the
\* supplier and the lines, which the handlers below bring to every
\* combination of none, one and several
SaveNext ==
    \/ LoadPage
    \/ SupplierChange
    \/ ProductChange
    \/ AddProduct
    \/ DeleteProduct
    \/ SaveClick
    \/ SendPO
    \/ Settle

SaveSpec == Init /\ [][SaveNext]_vars

\* every request eventually settles
SaveLiveSpec == SaveSpec /\ WF_vars(Settle)

\* savePO as a function of the page: called with or without an id
SaveCallNext ==
    \/ LoadPage
    \/ AddProduct
    \/ DeleteProduct
    \/ SavePOCall
    \/ Settle

SaveCallSpec == Init /\ [][SaveCallNext]_vars

\* calls of _callAPI, one after the other
CallDone ==
    /\ callPc = "done"
    /\ callPc' = "idle"
    /\ UNCHANGED <<callResp, callOutcome, callSettled>>
    /\ UNCHANGED <<poVars, budgetVars, adminVars, costVars>>

CallNext == CallStart \/ CallFetch \/ CallJson \/ CallThen \/ CallDone

CallSpec == Init /\ [][CallNext]_vars

\* the budget input of one employee row
BudgetInit ==
    /\ PoRest /\ CallRest /\ AdminRest /\ CostRest
    /\ \E b \in 0..MaxBudget : BudgetRest(b)

BudgetNext == BudgetInput \/ BudgetChange \/ BudgetSettle

BudgetSpec == BudgetInit /\ [][BudgetNext]_vars

\* the order admin form
AdminNext ==
    \/ DomContentLoaded
    \/ TimerFires
    \/ DjangoLoads
    \/ SelectChange
    \/ FormsetAdded

AdminSpec == Init /\ [][AdminNext]_vars

\* the browser fires DOMContentLoaded and every timer that is set
AdminLiveSpec ==
    AdminSpec /\ WF_vars(DomContentLoaded) /\ WF_vars(TimerFires)

\* the line handlers (addProduct, updateQuantity, deleteProduct) on the
\* orders a page load can leave on the screen: lines of the voucher product
\* with voucher values 50.00, 50.04 and 100.00 (initialPOData gives each
\* entry its own voucher value) and lines of the physical product under its
\* own sku and under the sku of a variation (3), all of one product id
VoucherValues == {5000, 5004, 10000}
VariationSkus == {2, 3}
LineItems ==
    { Line(1, 1, v, q, "MONEY") : v \in VoucherValues, q \in 1..MaxQty }
    \cup { Line(2, s, Undef, q, "PHYSICAL") : s \in VariationSkus, q \in 1..MaxQty }
LineOrders ==
    { o \in UNION { [1..n -> LineItems] : n \in 0..MaxLines } :
        \A i, j \in DOMAIN o :
            i # j => (o[i].sku # o[j].sku \/ o[i].voucher # o[j].voucher) }

LineInit ==
    /\ CallRest /\ BudgetRest(0) /\ AdminRest /\ CostRest
    /\ page = "open" /\ poId = 0
    /\ suppliersLoaded = TRUE /\ listeners = TRUE
    /\ selectedSupplier \in SupplierIds
    /\ productsDefined = TRUE /\ products = Catalogue(selectedSupplier)
    /\ selectedProduct = NoProduct
    /\ orderProducts \in LineOrders
    /\ buttonsDisabled = FALSE
    /\ inflight = {}
    /\ importQty = NoSheet
    /\ lastRow = 0
    /\ alertMsg = "none" /\ lastOp = "none"

LineNext ==
    \/ ProductChange
    \/ AddProduct
    \/ UpdateQuantity
    \/ DeleteProduct

LineSpec == LineInit /\ [][LineNext]_vars

\* the cost price of one MONEY line
CostInit ==
    /\ PoRest /\ CallRest /\ BudgetRest(0) /\ AdminRest
    /\ costVoucher \in CostVouchers /\ costRate \in Rates
    /\ costPrice = Undef /\ costOp = "none"

CostNext == AddProductCost \/ LoadCost

CostSpec == CostInit /\ [][CostNext]_vars

\* ================================================================ claims

\* ---- C1 (CallSpec): every call of _callAPI settles exactly once, and in one
\* of four ways fixed by the response: {status: -1} when fetch fails,
\* {status} when the body is not JSON, {status, data: body} when the body is
\* JSON and the response is not ok, body.data fulfilled when the body is JSON
\* and the response is ok.
C1_FourWays ==
    callPc = "done" =>
        /\ callSettled = 1
        /\ callOutcome =
             IF ~callResp.net THEN Rejected(0 - 1, FALSE, NoBody)
             ELSE IF callResp.body.json = "invalid"
                  THEN Rejected(callResp.status, FALSE, NoBody)
             ELSE IF ~ResponseOk(callResp.status)
                  THEN Rejected(callResp.status, TRUE, callResp.body)
             ELSE Fulfilled(callResp.body.data)

\* ---- C2 (Spec): an import that merged (one known supplier, catalogue
\* fetched) keeps every previous line, sets the quantity of a previous line
\* whose sku a kept sheet row has to the sheet's quantity, appends a row
\* whose sku is in the supplier's catalogue and new to the order, and drops
\* the rows whose sku is not in the catalogue.
C2_Merge(old, new, qty, prods) ==
    LET kept == { s \in SheetSkus : qty[s] # Undef /\ s \in Skus(prods) }
        oldSkus == { old[i].sku : i \in DOMAIN old }
        Merged(l) == [l EXCEPT !.quantity =
                         IF l.sku \in kept THEN qty[l.sku] ELSE l.quantity]
        Appended(s) == RowLine([sku |-> s, quantity |-> qty[s]])
    IN /\ \A i \in DOMAIN old : \E j \in DOMAIN new : new[j] = Merged(old[i])
       /\ \A s \in kept \ oldSkus : \E j \in DOMAIN new : new[j] = Appended(s)
       /\ \A j \in DOMAIN new :
             \/ \E i \in DOMAIN old : new[j] = Merged(old[i])
             \/ \E s \in kept \ oldSkus : new[j] = Appended(s)
       /\ Len(new) = Len(old) + Cardinality(kept \ oldSkus)
C2_ImportMerges ==
    [][lastOp' = "imported" =>
          C2_Merge(orderProducts, orderProducts', importQty', products')]_vars

\* ---- C3 (SaveSpec): a savePO call other than the approval of a stored
\* order sends a request only when the order has a line and a supplier is
\* selected; otherwise it alerts, leaves the save buttons enabled and leaves
\* orderProducts and selectedSupplier as they were.
SavedAs == {"PENDING", "CANCELLED", "SENT_TO_SUPPLIER"}
C4_ApproveSendsStatusOnly ==
    [][lastOp' = "APPROVED" =>
          /\ inflight = {}
          /\ inflight' = {StatusRequest(poId, FALSE)}]_vars
C4_Witness ==
    /\ lastOp = "APPROVED"
    /\ orderProducts = << >> /\ selectedSupplier = 0
    /\ inflight = {StatusRequest(poId, FALSE)}

\* ---- C5 (SaveSpec): while a request of savePO is in flight every save
\* button is disabled, and at most one such request is in flight.
C5_OneRequestInFlight ==
    /\ Cardinality(inflight) <= 1
    /\ (inflight # {} /\ page = "open") => buttonsDisabled
C5_Witness ==
    /\ page = "open" /\ buttonsDisabled
    /\ \E r \in inflight : r.endpoint = "order-products"

\* ---- C6 (SaveSpec): a SENT_TO_SUPPLIER request is sent only for a selected
\* supplier that has an email address; sendPO with no such supplier alerts
\* and sends nothing.
NoEmail == selectedSupplier = 0 \/ ~SupplierEmail(selectedSupplier)
C6_SendNeedsEmail ==
    [][/\ \A r \in inflight' \ inflight :
            r.status = "SENT_TO_SUPPLIER" =>
                ~NoEmail /\ r.supplier = selectedSupplier
       /\ (lastOp' \in {"sendPO", "SENT_TO_SUPPLIER"} /\ NoEmail) =>
            /\ inflight' = inflight
            /\ alertMsg' = "PO cannot be sent since the supplier does not have an email address set"]_vars
C6_Witness ==
    /\ lastOp = "sendPO"
    /\ selectedSupplier = 2 /\ orderProducts # << >>
    /\ inflight = {}
    /\ alertMsg = "PO cannot be sent since the supplier does not have an email address set"

\* ---- C7 (SaveSpec): when a request of savePO is rejected, orderProducts and
\* selectedSupplier stay, the page stays, an alert is shown and the save
\* buttons are enabled again.
Rejections == {"rejected", "rejectedMessage", "rejectedMessage400"}
ServerMessage == {"Error: <message>", "Error approving PO: <message>"}
C7_Recovers ==
    /\ orderProducts' = orderProducts
    /\ selectedSupplier' = selectedSupplier
    /\ page' = "open"
    /\ alertMsg' # "none"
    /\ ~buttonsDisabled'
\* as claimed: the alert is the server's message whenever the rejection
\* carries one
C7_RejectionAsClaimed ==
    [][lastOp' \in Rejections =>
          /\ C7_Recovers
          /\ lastOp' # "rejected" => alertMsg' \in ServerMessage]_vars
\* amended: for a request other than the approval, only a rejection with
\* status 400 shows the server's message
C7_Rejection ==
    [][lastOp' \in Rejections =>
          /\ C7_Recovers
          /\ \A r \in inflight \ inflight' :
                (alertMsg' \in ServerMessage) <=>
                    \/ lastOp' = "rejectedMessage400"
                    \/ /\ lastOp' = "rejectedMessage"
                       /\ r.endpoint = "order-products-status"]_vars
C7_Witness ==
    /\ lastOp = "rejectedMessage400"
    /\ alertMsg = "Error: <message>"
    /\ page = "open" /\ ~buttonsDisabled /\ orderProducts # << >>

\* ---- C8 (SaveLiveSpec): once savePO has disabled the save buttons, the page
\* navigates away or the buttons are enabled again; on an open page they are
\* disabled only while the request is in flight.
C8_ButtonsComeBack ==
    /\ [](page = "open" /\ buttonsDisabled => inflight # {})
    /\ (buttonsDisabled ~> (page = "left" \/ ~buttonsDisabled))
C8_Witness ==
    /\ lastOp \in Rejections
    /\ page = "open" /\ ~buttonsDisabled /\ inflight = {}

\* ---- C9 (BudgetSpec): when the update request fails, the input shows the
\* value it showed before the user's edit.
C9_RevertsToOriginal ==
    budgetOp = "failed" => budgetValue = budgetFailed

\* ---- C10 (AdminLiveSpec): initializeDjangoAdmin keeps one retry timer set
\* until django.jQuery is there; once it is there the handlers are installed,
\* once only, and no timer is set afterwards.
C10_InstallsOnce ==
    /\ [](installs <= 1)
    /\ [](installs = 1 => timerPending = 0)
    /\ []((domLoaded /\ installs = 0) => timerPending = 1)
    /\ (djangoReady ~> installs = 1)
C10_Witness ==
    /\ installs = 1 /\ retries >= 2 /\ timerPending = 0
    /\ rowCells = AllRowsUpdated

\* ---- C11 (Spec): on the open screen with a supplier selected, every line of
\* orderProducts is a product of the catalogue of that supplier (by its id
\* or, for a line without id, its sku).
InCatalogue(l, s) ==
    \E k \in DOMAIN Catalogue(s) :
        \/ Catalogue(s)[k].id = l.id
        \/ (l.id = 0 /\ Catalogue(s)[k].sku = l.sku)
C11_LinesOfSupplier ==
    (page = "open" /\ selectedSupplier # 0) =>
        \A i \in DOMAIN orderProducts :
            InCatalogue(orderProducts[i], selectedSupplier)

\* ---- C12 (Spec): on the open screen every line of orderProducts has a
\* quantity of at least 1.
C12_QuantityAtLeastOne ==
    page = "open" =>
        \A i \in DOMAIN orderProducts : orderProducts[i].quantity >= 1

\* ---- C13 (LineSpec): addProduct appends the selected product as a new last
\* line, with quantity 1 (selectedProductQuantity), when a product is
\* selected and no line has its sku and its voucher value to one decimal;
\* otherwise it leaves orderProducts as it is.
C13_Duplicate ==
    \E i \in DOMAIN orderProducts :
        /\ orderProducts[i].sku = selectedProduct.sku
        /\ ToFixed1(orderProducts[i].voucher) = ToFixed1(selectedProduct.voucher)
C13_AddProductDedupes ==
    [][lastOp' = "addProduct" =>
          IF selectedProduct # NoProduct /\ ~C13_Duplicate
          THEN /\ Len(orderProducts') = Len(orderProducts) + 1
               /\ SubSeq(orderProducts', 1, Len(orderProducts)) = orderProducts
               /\ LET l == orderProducts'[Len(orderProducts')]
                  IN /\ l.id = selectedProduct.id
                     /\ l.sku = selectedProduct.sku
                     /\ l.voucher = selectedProduct.voucher
                     /\ l.quantity = 1
          ELSE orderProducts' = orderProducts]_vars
\* the product of voucher value 50.00 has been appended (the order is longer
\* than any the screen started from) to an order that holds its line of
\* voucher value 100.00
C13_Witness ==
    /\ lastOp = "addProduct"
    /\ Len(orderProducts) = MaxLines + 1
    /\ orderProducts[Len(orderProducts)] = Line(1, 1, 5000, 1, "MONEY")
    /\ \E i \in DOMAIN orderProducts :
          orderProducts[i].sku = 1 /\ orderProducts[i].voucher = 10000
\* the product of voucher value 50.00 is not added next to its line of
\* voucher value 50.04
C13_WitnessOneDecimal ==
    /\ lastOp = "addProduct"
    /\ selectedProduct.sku = 1 /\ selectedProduct.voucher = 5000
    /\ Len(orderProducts) = 1
    /\ orderProducts[1].sku = 1 /\ orderProducts[1].voucher = 5004

\* ---- C14 (LineSpec): the + and - buttons of a row change the quantity of
\* that row only, by one, and the trash button of a row removes that row
\* only.
C14_Without(o, r) == [i \in 1..(Len(o) - 1) |-> IF i < r THEN o[i] ELSE o[i + 1]]
C14_ButtonsActOnTheirRow ==
    [][/\ lastOp' = "updateQuantity" =>
            /\ Len(orderProducts') = Len(orderProducts)
            /\ \A i \in DOMAIN orderProducts :
                  i # lastRow' => orderProducts'[i] = orderProducts[i]
       /\ lastOp' = "deleteProduct" =>
            orderProducts' = C14_Without(orderProducts, lastRow')]_vars

\* ---- C15 (SaveCallSpec): a request of sendProductsOrder is a POST (to
\* logistics/order-products) when the order on the page has no id, and a
\* PATCH to logistics/order-products/<id> of the order's id when it has one.
C15_PostWithoutIdPatchWithId ==
    [][\A r \in inflight' \ inflight :
          r.endpoint = "order-products" =>
              IF poId = 0
              THEN r.method = "POST"
              ELSE r.method = "PATCH" /\ r.id = poId]_vars

\* ---- C16 (CostSpec): the cost price of a MONEY line, from addProduct and
\* from loadOrderFromInitData, is floor(voucher_value * (100 - rate) / 100),
\* and for a whole voucher value it lies between 0 and the voucher value.
C16_Voucher == IF costOp = "load" THEN OrZero(costVoucher) ELSE costVoucher
C16_Rate == IF costOp = "load" THEN OrZero(costRate) ELSE costRate
C16_CostFromVoucher ==
    (costOp # "none" /\ C16_Voucher # Undef /\ C16_Rate # Undef) =>
        /\ costPrice = (C16_Voucher * (100 - C16_Rate)) \div 10000
        /\ C16_Voucher % 100 = 0 =>
              (0 <= costPrice /\ costPrice <= C16_Voucher \div 100)

====
